---- MODULE Spec2Model ----
(***************************************************************************)
(* Simple Banking System (banking.py): the Luhn identifier scheme of class *)
(* Card, the card table, and the command handlers of SimpleBankingSystem.  *)
(*                                                                         *)
(* A Python string is a sequence of one-character strings.  The card table *)
(* is the sequence of its rows in rowid order; a row is a record           *)
(* [number, pin, balance].                                                 *)
(***************************************************************************)
EXTENDS Integers, Sequences, FiniteSets, TLC

VARIABLES db, card, running, exc, last, rt, inp, chk, valid

vars == <<db, card, running, exc, last, rt, inp, chk, valid>>

(***************************************************************************)
(* Bounds of the model.                                                    *)
(***************************************************************************)
\* randint(1, 999999999) of __create_card returns one of MaxSeg values
MaxSeg == 2
\* randint(1, 9999) of __create_code is drawn from 1..MaxPin
MaxPin == 1
\* the card table holds at most MaxRows rows
MaxRows == 3
\* every stored balance stays within -MaxBal..MaxBal
MaxBal == 2
\* the strings given to the Luhn functions are a base followed by at most
\* MaxTail typed characters
MaxTail == 3

(***************************************************************************)
(* Characters, int() and str().                                            *)
(***************************************************************************)
DigitChars == <<"0", "1", "2", "3", "4", "5", "6", "7", "8", "9">>

IsDigit(c) == \E i \in 1..10 : DigitChars[i] = c

\* int(c) of a one-character string; defined for digits only
int(c) == (CHOOSE i \in 1..10 : DigitChars[i] = c) - 1

AllDigits(s) == \A i \in 1..Len(s) : IsDigit(s[i])

RECURSIVE str(_)
\* str(n) of a non-negative integer
str(n) == IF n < 10 THEN <<DigitChars[n + 1]>>
          ELSE str(n \div 10) \o <<DigitChars[(n % 10) + 1]>>

RECURSIVE zfill(_, _)
\* the zero padding of the format specs :09d and :04d
zfill(s, width) == IF Len(s) >= width THEN s ELSE zfill(<<"0">> \o s, width)

\* int(input(...)) of a whole line: an optional sign and decimal digits
ParsesAsInt(s) ==
    \/ Len(s) >= 1 /\ AllDigits(s)
    \/ Len(s) >= 2 /\ s[1] \in {"-", "+"} /\ AllDigits(Tail(s))

RECURSIVE DigitsValue(_)
DigitsValue(s) == IF s = <<>> THEN 0
                  ELSE 10 * DigitsValue(SubSeq(s, 1, Len(s) - 1)) + int(s[Len(s)])

IntOfInput(s) == IF s[1] = "-" THEN 0 - DigitsValue(Tail(s))
                 ELSE IF s[1] = "+" THEN DigitsValue(Tail(s))
                 ELSE DigitsValue(s)

(***************************************************************************)
(* Card.calculate_luhn_checksum and Card.is_valid_card_number.             *)
(***************************************************************************)
RECURSIVE SumSeq(_)
SumSeq(ds) == IF ds = <<>> THEN 0 ELSE Head(ds) + SumSeq(Tail(ds))

RECURSIVE LuhnLoop(_, _)
\* for i in range(len(digits) - 1, -1, -2); i is the 1-based index here
LuhnLoop(digits, i) ==
    IF i < 1 THEN digits
    ELSE LET d2 == digits[i] * 2
             d  == IF d2 > 9 THEN d2 - 9 ELSE d2
         IN  LuhnLoop([digits EXCEPT ![i] = d], i - 2)

\* the variant that anchors the doubling to index 0 instead of the last digit
calculate_luhn_checksum_parity(account_number) ==
    IF ~AllDigits(account_number) THEN [exc |-> "ValueError", val |-> 0]
    ELSE LET digits == [i \in 1..Len(account_number) |-> int(account_number[i])]
             doubled == [i \in 1..Len(digits) |->
                            IF i % 2 = 1
                            THEN (IF digits[i] * 2 > 9 THEN digits[i] * 2 - 9
                                  ELSE digits[i] * 2)
                            ELSE digits[i]]
             total_sum == SumSeq(doubled)
         IN  [exc |-> "none", val |-> (10 - (total_sum % 10)) % 10]

\* the variant that forgets the final % 10
calculate_luhn_checksum_nomod(account_number) ==
    IF ~AllDigits(account_number) THEN [exc |-> "ValueError", val |-> 0]
    ELSE LET digits == [i \in 1..Len(account_number) |-> int(account_number[i])]
             total_sum == SumSeq(LuhnLoop(digits, Len(digits)))
         IN  [exc |-> "none", val |-> 10 - (total_sum % 10)]

\* the result is [exc, val]: exc is "none" and val the check digit, or exc
\* is the exception int(digit) raises on a character that is not a digit
calculate_luhn_checksum(account_number) ==
    IF ~AllDigits(account_number) THEN [exc |-> "ValueError", val |-> 0]
    ELSE LET digits == [i \in 1..Len(account_number) |-> int(account_number[i])]
             total_sum == SumSeq(LuhnLoop(digits, Len(digits)))
         IN  [exc |-> "none", val |-> (10 - (total_sum % 10)) % 10]

\* the result is "True", "False" or the name of the exception raised
is_valid_card_number(number) ==
    LET card_number_without_checksum == SubSeq(number, 1, Len(number) - 1)
        checksum == calculate_luhn_checksum(card_number_without_checksum)
    IN  IF checksum.exc # "none" THEN checksum.exc
        ELSE IF number = <<>> THEN "IndexError"
        ELSE IF str(checksum.val) = <<number[Len(number)]>> THEN "True"
        ELSE "False"

(***************************************************************************)
(* Card.__create_card and Card.__create_code, given the value of randint.  *)
(***************************************************************************)
inn == <<"4", "0", "0", "0", "0", "0">>

\* the variant that drops the zero padding of the account segment
create_card_nopad(r) ==
    LET account_number == inn \o str(r)
        checksum == calculate_luhn_checksum(account_number).val
    IN  account_number \o str(checksum)

create_card(r) ==
    LET account_number == inn \o zfill(str(r), 9)
        checksum == calculate_luhn_checksum(account_number).val
    IN  account_number \o str(checksum)

\* the variant that drops the zero padding of the code
create_code_nopad(r) == str(r)

create_code(r) == zfill(str(r), 4)

(***************************************************************************)
(* The card table and class Card.                                          *)
(***************************************************************************)
\* self.card = None
None == [none |-> TRUE]

\* Card.__init__ with card and code given: the object of an existing row
Card(number, code, balance) ==
    [number |-> number, code |-> code, balance |-> balance]

\* INSERT INTO card (number, pin, balance): the new row gets the next rowid
save_to_db(table, self) ==
    Append(table, [number |-> self.number, pin |-> self.code,
                   balance |-> self.balance])

\* Card.__init__ with card = None: a new card is generated and saved; rc and
\* rp are the values randint returns to __create_card and __create_code
Card_new(table, rc, rp) ==
    LET self == Card(create_card(rc), create_code(rp), 0)
    IN  [db |-> save_to_db(table, self), self |-> self]

\* code is the PIN typed in, or <<>> for the default code=None: `if code:`
\* takes the else branch for None and for the empty string alike
check_card(table, number, code) ==
    LET rows == IF code # <<>>
                THEN SelectSeq(table, LAMBDA r : r.number = number /\ r.pin = code)
                ELSE SelectSeq(table, LAMBDA r : r.number = number)
    IN  IF rows # <<>>
        THEN Card(rows[1].number, rows[1].pin, rows[1].balance)
        ELSE None

\* UPDATE card SET balance = balance + ? WHERE number = ?, then the SELECT
\* that reads the balance of the first row with that number back
update_balance(table, self, money) ==
    LET updated == [i \in 1..Len(table) |->
                       IF table[i].number = self.number
                       THEN [table[i] EXCEPT !.balance = @ + money]
                       ELSE table[i]]
        result == SelectSeq(updated, LAMBDA r : r.number = self.number)
    IN  [db   |-> updated,
         self |-> IF result # <<>>
                  THEN [self EXCEPT !.balance = result[1].balance]
                  ELSE self]

\* the variant that deletes the card only when it is empty
delete_card_if_empty(table, self) ==
    IF self.balance = 0
    THEN SelectSeq(table, LAMBDA r : r.number # self.number)
    ELSE table

\* DELETE FROM card WHERE number = ?
delete_card(table, self) ==
    SelectSeq(table, LAMBDA r : r.number # self.number)

(***************************************************************************)
(* SimpleBankingSystem.__do_transfer.                                      *)
(***************************************************************************)
SameAccount == "You can't transfer money to the same account!"
Mistake == "Probably you made a mistake in the card number. Please try again!"
NoSuchCard == "Such a card does not exist."
NotEnough == "Not enough money!"

\* the outcome of the handler: the table and self.card afterwards, the
\* message printed by the except clause ("" when no TransactionError was
\* raised) and the exception that escapes the handler ("none" when none does)
TransferResult(table, self, msg, e) ==
    [db |-> table, card |-> self, msg |-> msg, exc |-> e]

\* the outcome of the checks of the destination: msg and exc as above, and
\* the Card object of the destination when the checks pass
Destination(msg, e, transfer_card) ==
    [msg |-> msg, exc |-> e, transfer_card |-> transfer_card]

\* the variant that looks the destination up before it checks the number
transfer_destination_lookup_first(table, self, number) ==
    IF number = self.number THEN Destination(SameAccount, "none", None)
    ELSE LET transfer_card == check_card(table, number, <<>>)
             v == is_valid_card_number(number)
         IN  IF transfer_card = None THEN Destination(NoSuchCard, "none", None)
             ELSE IF v \notin {"True", "False"} THEN Destination("", v, None)
             ELSE IF v = "False" THEN Destination(Mistake, "none", None)
             ELSE Destination("", "none", transfer_card)

\* __do_transfer up to the second prompt: number is the line typed at
\* "Enter card number:"
transfer_destination(table, self, number) ==
    IF number = self.number THEN Destination(SameAccount, "none", None)
    ELSE LET v == is_valid_card_number(number)
             transfer_card == check_card(table, number, <<>>)
         IN  IF v \notin {"True", "False"} THEN Destination("", v, None)
             ELSE IF v = "False" THEN Destination(Mistake, "none", None)
             ELSE IF transfer_card = None THEN Destination(NoSuchCard, "none", None)
             ELSE Destination("", "none", transfer_card)

\* the variant that debits the source before it checks the funds
transfer_amount_debit_first(table, self, transfer_card, money) ==
    IF ~ParsesAsInt(money) THEN TransferResult(table, self, "", "ValueError")
    ELSE LET transfer_money == IntOfInput(money)
             debit == update_balance(table, self, transfer_money * (-1))
             credit == update_balance(debit.db, transfer_card, transfer_money)
         IN  IF transfer_money > self.balance
             THEN TransferResult(debit.db, debit.self, NotEnough, "none")
             ELSE TransferResult(credit.db, debit.self, "", "none")

\* the variant that drops the "* -1" of the debit
transfer_amount_no_negate(table, self, transfer_card, money) ==
    IF ~ParsesAsInt(money) THEN TransferResult(table, self, "", "ValueError")
    ELSE LET transfer_money == IntOfInput(money)
             debit == update_balance(table, self, transfer_money)
             credit == update_balance(debit.db, transfer_card, transfer_money)
         IN  IF transfer_money > self.balance
             THEN TransferResult(table, self, NotEnough, "none")
             ELSE TransferResult(credit.db, debit.self, "", "none")

\* __do_transfer from the second prompt on: money is the line typed at
\* "Enter how much money you want to transfer:"
transfer_amount(table, self, transfer_card, money) ==
    IF ~ParsesAsInt(money) THEN TransferResult(table, self, "", "ValueError")
    ELSE LET transfer_money == IntOfInput(money)
             debit == update_balance(table, self, transfer_money * (-1))
             credit == update_balance(debit.db, transfer_card, transfer_money)
         IN  IF transfer_money > self.balance
             THEN TransferResult(table, self, NotEnough, "none")
             ELSE TransferResult(credit.db, debit.self, "", "none")

\* the exception of a run that is stopped between two statements
Stopped == "KeyboardInterrupt"

\* the variant that credits the destination first
transfer_amount_stopped_credit_first(table, self, transfer_card, money) ==
    IF ~ParsesAsInt(money) THEN TransferResult(table, self, "", "ValueError")
    ELSE LET transfer_money == IntOfInput(money)
             credit == update_balance(table, transfer_card, transfer_money)
         IN  IF transfer_money > self.balance
             THEN TransferResult(table, self, NotEnough, "none")
             ELSE TransferResult(credit.db, self, "", Stopped)

\* __do_transfer from the second prompt on when the run is stopped after
\* the update_balance call of line 228 has committed and before the one of
\* line 229 starts
transfer_amount_stopped(table, self, transfer_card, money) ==
    IF ~ParsesAsInt(money) THEN TransferResult(table, self, "", "ValueError")
    ELSE LET transfer_money == IntOfInput(money)
             debit == update_balance(table, self, transfer_money * (-1))
         IN  IF transfer_money > self.balance
             THEN TransferResult(table, self, NotEnough, "none")
             ELSE TransferResult(debit.db, debit.self, "", Stopped)

(***************************************************************************)
(* The lines a user can type, and the values randint can return.           *)
(***************************************************************************)
\* the upper end of randint(1, 999999999)
RandHigh == 999999999

\* the lowest value and the MaxSeg - 1 highest ones: the segment that is
\* all padding but one digit, and the segments that need no padding
RandCard == {1} \cup {RandHigh - k : k \in 0..(MaxSeg - 2)}
RandCode == 1..MaxPin

GeneratedNumbers == {create_card(r) : r \in RandCard}

\* a sixteen-digit number whose last digit is not the check digit
BadChecksum == [create_card(1) EXCEPT ![16] = IF @ = "0" THEN "1" ELSE "0"]

\* card numbers typed at "Enter card number:"
NumberInputs ==
    GeneratedNumbers \cup
    {BadChecksum, <<"4", "a", "0">>}

\* PINs typed at "Enter your PIN:"
CodeInputs == {create_code(r) : r \in RandCode} \cup {<<>>, <<"0", "0", "0", "0">>}

\* lines typed at "Enter income:" and "Enter how much money ..."
MoneyInputs ==
    {str(n) : n \in 0..MaxBal} \cup {<<"-", "1">>, <<"x">>}

\* the balances the model lets the table hold
InRange(table) ==
    \A i \in 1..Len(table) :
        table[i].balance >= 0 - MaxBal /\ table[i].balance <= MaxBal

(***************************************************************************)
(* State.                                                                  *)
(*   db       the rows of table card, in rowid order                       *)
(*   card     self.card: None or the Card object of the logged-in user     *)
(*   running  self.running                                                 *)
(*   exc      the exception that ended the process, "none" while it lives  *)
(*   last     the command executed last, its input lines and its message   *)
(*   rt       the transfer A -> B to which the next transfer B -> A of the *)
(*            same amount is the way back, with the table before it        *)
(*   inp, chk, valid   a string, and what calculate_luhn_checksum and      *)
(*            is_valid_card_number returned for it                         *)
(***************************************************************************)
Cmd(op, number, code, money, msg) ==
    [op |-> op, number |-> number, code |-> code, money |-> money, msg |-> msg]

NoRT == [stage |-> 0, src |-> <<>>, dst |-> <<>>, money |-> <<>>,
         db0 |-> <<>>, ok1 |-> FALSE, ok2 |-> FALSE]

NoChk == [exc |-> "unset", val |-> 0]

BankInit ==
    /\ db = <<>>
    /\ card = None
    /\ running = TRUE
    /\ exc = "none"
    /\ last = Cmd("main", <<>>, <<>>, <<>>, "")
    /\ rt = NoRT

Init ==
    /\ BankInit
    /\ inp = <<>>
    /\ chk = NoChk
    /\ valid = "unset"

luhnVars == <<inp, chk, valid>>
bankVars == <<db, card, running, exc, last, rt>>

\* start(): the loop takes a command while self.running and no exception
\* has escaped
Accepting == running /\ exc = "none"
Anonymous == Accepting /\ card = None
LoggedIn == Accepting /\ card # None

\* the first transfer of a round trip is followed by log out, log in as the
\* destination and the transfer back
KeepRT(after) == IF rt.stage = 1 /\ last.op = after THEN rt ELSE NoRT

(***************************************************************************)
(* Commands of the anonymous menu.                                         *)
(***************************************************************************)
CreateAccount ==
    /\ Anonymous
    /\ Len(db) < MaxRows
    /\ \E rc \in RandCard, rp \in RandCode :
          \E user \in {Card_new(db, rc, rp)} :
              /\ db' = user.db
              /\ last' = Cmd("create", user.self.number, user.self.code, <<>>,
                             "Your card has been created")
    /\ rt' = NoRT
    /\ UNCHANGED <<card, running, exc, luhnVars>>

Login ==
    /\ Anonymous
    /\ \E number \in GeneratedNumbers, code \in CodeInputs :
          /\ card' = check_card(db, number, code)
          /\ last' = Cmd("login", number, code, <<>>,
                         IF card' # None
                         THEN "You have successfully logged in!"
                         ELSE "Wrong card number or PIN!")
          /\ rt' = IF card' # None /\ number = rt.dst THEN KeepRT("logout")
                   ELSE NoRT
    /\ UNCHANGED <<db, running, exc, luhnVars>>

(***************************************************************************)
(* Commands of the user menu.                                              *)
(***************************************************************************)
Balance ==
    /\ LoggedIn
    /\ last' = Cmd("balance", <<>>, <<>>, <<>>, "")
    /\ rt' = NoRT
    /\ UNCHANGED <<db, card, running, exc, luhnVars>>

AddIncome ==
    /\ LoggedIn
    /\ \E money \in MoneyInputs :
          IF ~ParsesAsInt(money)
          THEN /\ exc' = "ValueError"
               /\ last' = Cmd("income", <<>>, <<>>, money, "")
               /\ UNCHANGED <<db, card>>
          ELSE \E u \in {update_balance(db, card, IntOfInput(money))} :
                   /\ InRange(u.db)
                   /\ db' = u.db
                   /\ card' = u.self
                   /\ last' = Cmd("income", <<>>, <<>>, money, "Income was added!")
                   /\ exc' = exc
    /\ rt' = NoRT
    /\ UNCHANGED <<running, luhnVars>>

\* the way back of A -> B is B -> A with the same amount typed in
TrackRT(number, money, done) ==
    IF ~ParsesAsInt(money) THEN NoRT
    ELSE IF rt.stage = 1 /\ rt.src = number /\ rt.dst = card.number
            /\ rt.money = money
    THEN [rt EXCEPT !.stage = 2, !.ok2 = done]
    ELSE [stage |-> 1, src |-> card.number, dst |-> number, money |-> money,
          db0 |-> db, ok1 |-> done, ok2 |-> FALSE]

DoTransfer ==
    /\ LoggedIn
    /\ \E number \in NumberInputs :
          \E d \in {transfer_destination(db, card, number)} :
              IF d.msg # "" \/ d.exc # "none"
              THEN /\ exc' = d.exc
                   /\ last' = Cmd("transfer", number, <<>>, <<>>, d.msg)
                   /\ rt' = NoRT
                   /\ UNCHANGED <<db, card>>
              ELSE \E money \in MoneyInputs :
                   \E t \in {transfer_amount(db, card, d.transfer_card, money)} :
                      /\ InRange(t.db)
                      /\ db' = t.db
                      /\ card' = t.card
                      /\ exc' = t.exc
                      /\ last' = Cmd("transfer", number, <<>>, money, t.msg)
                      /\ rt' = TrackRT(number, money,
                                       t.msg = "" /\ t.exc = "none")
    /\ UNCHANGED <<running, luhnVars>>

\* a transfer that is stopped between its two update_balance calls
DoTransferStopped ==
    /\ LoggedIn
    /\ \E number \in NumberInputs :
          \E d \in {transfer_destination(db, card, number)} :
              /\ d.msg = ""
              /\ d.exc = "none"
              /\ \E money \in MoneyInputs :
                 \E t \in {transfer_amount_stopped(db, card, d.transfer_card, money)} :
                    /\ t.exc = Stopped
                    /\ InRange(t.db)
                    /\ db' = t.db
                    /\ card' = t.card
                    /\ exc' = t.exc
                    /\ last' = Cmd("transfer", number, <<>>, money, t.msg)
    /\ rt' = NoRT
    /\ UNCHANGED <<running, luhnVars>>

\* the variant that keeps the Card object of the deleted card
CloseAccount_keeps_card ==
    /\ LoggedIn
    /\ db' = delete_card(db, card)
    /\ card' = card
    /\ last' = Cmd("close", card.number, <<>>, <<>>, "")
    /\ rt' = NoRT
    /\ UNCHANGED <<running, exc, luhnVars>>

CloseAccount ==
    /\ LoggedIn
    /\ db' = delete_card(db, card)
    /\ card' = None
    /\ last' = Cmd("close", card.number, <<>>, <<>>, "")
    /\ rt' = NoRT
    /\ UNCHANGED <<running, exc, luhnVars>>

Logout ==
    /\ LoggedIn
    /\ card' = None
    /\ last' = Cmd("logout", <<>>, <<>>, <<>>, "You have successfully logged out!")
    /\ rt' = KeepRT("transfer")
    /\ UNCHANGED <<db, running, exc, luhnVars>>

(***************************************************************************)
(* Both menus: Exit, a line that is no command, and a new run of main on   *)
(* the same card.s3db.                                                     *)
(***************************************************************************)
ExitProgram ==
    /\ Accepting
    /\ running' = FALSE
    /\ last' = Cmd("exit", <<>>, <<>>, <<>>, "Bye!")
    /\ rt' = NoRT
    /\ UNCHANGED <<db, card, exc, luhnVars>>

BadCommand ==
    /\ Accepting
    /\ \E e \in {"ValueError", "KeyError"} : exc' = e
    /\ last' = Cmd("badcommand", <<>>, <<>>, <<>>, "")
    /\ rt' = NoRT
    /\ UNCHANGED <<db, card, running, luhnVars>>

main ==
    /\ ~Accepting
    /\ card' = None
    /\ running' = TRUE
    /\ exc' = "none"
    /\ last' = Cmd("main", <<>>, <<>>, <<>>, "")
    /\ rt' = NoRT
    /\ UNCHANGED <<db, luhnVars>>

Next ==
    \/ CreateAccount
    \/ Login
    \/ Balance
    \/ AddIncome
    \/ DoTransfer
    \/ DoTransferStopped
    \/ CloseAccount
    \/ Logout
    \/ ExitProgram
    \/ BadCommand
    \/ main

Spec == Init /\ [][Next]_vars

(***************************************************************************)
(* The Luhn functions applied to strings: a base followed by typed         *)
(* characters.                                                             *)
(***************************************************************************)
Bases ==
    {<<>>,
     inn \o <<"0", "0", "0", "0", "0", "0">>,
     <<"9", "9", "9", "9", "9", "9", "9", "9", "9", "9", "9", "9">>,
     <<"1", "2", "3", "4", "5", "6", "7", "8", "9", "0", "1", "2">>}

TypeChars == {DigitChars[i] : i \in 1..10} \cup {"a"}

BaseLen(s) == IF Len(s) >= 12 THEN 12 ELSE 0

LuhnInit ==
    /\ BankInit
    /\ inp \in Bases
    /\ chk = NoChk
    /\ valid = "unset"

TypeChar ==
    /\ Len(inp) - BaseLen(inp) < MaxTail
    /\ \E c \in TypeChars : inp' = Append(inp, c)
    /\ chk' = NoChk
    /\ valid' = "unset"
    /\ UNCHANGED bankVars

Checksum ==
    /\ chk' = calculate_luhn_checksum(inp)
    /\ UNCHANGED <<inp, valid, bankVars>>

Validate ==
    /\ valid' = is_valid_card_number(inp)
    /\ UNCHANGED <<inp, chk, bankVars>>

LuhnNext == TypeChar \/ Checksum \/ Validate

LuhnSpec == LuhnInit /\ [][LuhnNext]_vars

(***************************************************************************)
(* Properties of __do_transfer.                                            *)
(***************************************************************************)
ValidationErrors == {SameAccount, Mistake, NoSuchCard, NotEnough}

\* the command executed last was a transfer that made both updates
TransferDone(l, e) == l.op = "transfer" /\ l.msg = "" /\ e = "none"

RECURSIVE SumBalances(_)
SumBalances(table) ==
    IF table = <<>> THEN 0 ELSE Head(table).balance + SumBalances(Tail(table))

\* C1: a transfer that ends with one of the four validation errors leaves
\* every row of the table and the logged-in Card object as they were
C1_FailedTransferChangesNothing ==
    [][(last'.op = "transfer" /\ last'.msg \in ValidationErrors)
          => (db' = db /\ card' = card /\ exc' = "none")]_vars

C1_Witness ==
    /\ last.op = "transfer"
    /\ last.msg = NotEnough
    /\ last.money = <<"2">>
    /\ card # None
    /\ card.balance = 1

\* C2: a transfer that passes validation takes the amount from the stored
\* balance of the source, adds it to the stored balance of the destination,
\* leaves every other row as it was and keeps the sum of all stored
\* balances; with amount = balance the source is left at 0
C2_TransferMovesAmount ==
    [][TransferDone(last', exc') =>
          LET amount == IntOfInput(last'.money)
          IN  /\ Len(db') = Len(db)
              /\ \A i \in 1..Len(db) :
                    /\ db'[i].number = db[i].number
                    /\ db'[i].pin = db[i].pin
                    /\ db'[i].balance =
                          IF db[i].number = card.number
                          THEN db[i].balance - amount
                          ELSE IF db[i].number = last'.number
                          THEN db[i].balance + amount
                          ELSE db[i].balance
              /\ SumBalances(db') = SumBalances(db)
              /\ (amount = card.balance => card'.balance = 0)]_vars

\* C3: the result of a transfer is decided in the order same account,
\* checksum, lookup, funds, and by the first check that fails
C3_ValidationOrder ==
    [][last'.op = "transfer" =>
          LET number == last'.number
              money == last'.money
              self_transfer == number = card.number
              v == is_valid_card_number(number)
              stored == \E i \in 1..Len(db) : db[i].number = number
              too_much == ParsesAsInt(money) /\ IntOfInput(money) > card.balance
          IN  /\ self_transfer <=> last'.msg = SameAccount
              /\ (~self_transfer /\ v = "False") <=> last'.msg = Mistake
              /\ (~self_transfer /\ v = "True" /\ ~stored)
                    <=> last'.msg = NoSuchCard
              /\ (~self_transfer /\ v = "True" /\ stored /\ too_much)
                    <=> last'.msg = NotEnough
              /\ last'.msg \in {SameAccount, Mistake, NoSuchCard}
                    => last'.money = <<>>]_vars

C3_Witness ==
    /\ last.op = "transfer"
    /\ last.msg = NoSuchCard
    /\ card # None
    /\ card.balance < 0

\* the rows of the two accounts of the round trip hold the balances they
\* held before its first transfer
Restored ==
    /\ Len(db) = Len(rt.db0)
    /\ \A i \in 1..Len(db) :
          db[i].number \in {rt.src, rt.dst} => db[i].balance = rt.db0[i].balance

\* C4 as stated: transfer(A, B, amount) followed by transfer(B, A, amount)
\* restores the stored balances of A and B, for any amount
C4_RoundTripAlways == rt.stage = 2 => Restored

\* C4 as amended: when both transfers of the round trip pass validation,
\* the stored balances of A and B are restored
C4_RoundTripWhenBothPass == (rt.stage = 2 /\ rt.ok1 /\ rt.ok2) => Restored

C4_Witness ==
    /\ rt.stage = 2
    /\ rt.ok1
    /\ rt.ok2
    /\ rt.money = <<"1">>

(***************************************************************************)
(* Properties of __login and of the card table.                            *)
(***************************************************************************)
\* C5: login yields a record exactly when a stored row has both the number
\* and the PIN typed in; otherwise the session stays anonymous
C5_LoginNeedsBoth ==
    last.op = "login" =>
        (card # None <=>
            \E i \in 1..Len(db) :
                db[i].number = last.number /\ db[i].pin = last.code)

\* C6: no two rows of the table have the same number
C6_UniqueNumbers ==
    \A i, j \in 1..Len(db) : i # j => db[i].number # db[j].number

\* C7: every stored number has sixteen digits, begins with 400000 and
\* passes is_valid_card_number
C7_StoredNumbersValid ==
    \A i \in 1..Len(db) :
        /\ Len(db[i].number) = 16
        /\ AllDigits(db[i].number)
        /\ SubSeq(db[i].number, 1, 6) = <<"4", "0", "0", "0", "0", "0">>
        /\ is_valid_card_number(db[i].number) = "True"

C7_Witness ==
    \E i, j \in 1..Len(db) :
        /\ db[i].number # db[j].number
        /\ db[i].number[15] = "1"
        /\ db[j].number[7] = "9"

(***************************************************************************)
(* Properties of the Luhn functions.                                       *)
(***************************************************************************)
\* C8: for a string d of fifteen digits, d followed by its check digit is
\* valid and d followed by any other digit is not
C8_CheckDigitIsTheValidOne ==
    (chk.exc = "none" /\ Len(inp) = 15) =>
        /\ is_valid_card_number(inp \o str(chk.val)) = "True"
        /\ \A c \in {DigitChars[i] : i \in 1..10} :
              <<c>> # str(chk.val) => is_valid_card_number(Append(inp, c)) = "False"

C8_Witness == chk.exc = "none" /\ Len(inp) = 15 /\ chk.val = 9

RECURSIVE RefLuhnSum(_, _)
\* the Luhn sum of a digit string read from its right end: a digit counts
\* itself or, when double, the sum of the digits of its double
RefLuhnSum(s, double) ==
    IF s = <<>> THEN 0
    ELSE LET d == int(s[Len(s)])
             contribution == IF double THEN ((2 * d) \div 10) + ((2 * d) % 10)
                             ELSE d
         IN  contribution + RefLuhnSum(SubSeq(s, 1, Len(s) - 1), ~double)

\* C9: for a digit string of any length, calculate_luhn_checksum returns
\* the one digit that, appended, makes the Luhn sum a multiple of 10
C9_ChecksumIsLuhnDigit ==
    chk.exc = "none" =>
        /\ chk.val \in 0..9
        /\ \A c \in 0..9 :
              (RefLuhnSum(Append(inp, DigitChars[c + 1]), FALSE) % 10 = 0)
                 <=> c = chk.val

C9_Witness ==
    /\ chk.exc = "none"
    /\ Len(inp) = 14
    /\ inp[14] = "9"
    /\ inp[13] = "9"

\* C10: is_valid_card_number returns False, and raises nothing, for a
\* string that is not sixteen digits
C10_MalformedIsRejected ==
    (valid # "unset" /\ (Len(inp) # 16 \/ ~AllDigits(inp))) => valid = "False"

\* no row of the table has the number
Absent(table, number) == \A i \in 1..Len(table) : table[i].number # number

\* C11: closing the account deletes every row with its number, whatever the
\* balance was; while no account is created with a number that is absent,
\* the number stays absent, a login with it fails and a transfer to it ends
\* with the no-such-card message
C11_ClosedStaysUnknown ==
    [][/\ (last'.op = "close" => Absent(db', card.number))
       /\ \A n \in GeneratedNumbers :
             (Absent(db, n) /\ ~(last'.op = "create" /\ last'.number = n))
                => Absent(db', n)
       /\ (last'.op = "login" /\ Absent(db, last'.number))
             => (card' = None /\ last'.msg = "Wrong card number or PIN!")
       /\ (/\ last'.op = "transfer"
           /\ Absent(db, last'.number)
           /\ is_valid_card_number(last'.number) = "True")
             => (last'.msg = NoSuchCard /\ db' = db)]_vars

C11_Witness ==
    /\ last.op = "close"
    /\ db # <<>>
    /\ Absent(db, last.number)

\* C12: while a card is logged in and the menu takes a command, the balance
\* of the Card object is the stored balance of its number
C12_BalanceInSync ==
    (Accepting /\ card # None) =>
        /\ ~Absent(db, card.number)
        /\ \A i \in 1..Len(db) :
              db[i].number = card.number => db[i].balance = card.balance

C14_CreateAddsOneRow ==
    [][last'.op = "create" =>
          /\ Len(db') = Len(db) + 1
          /\ SubSeq(db', 1, Len(db)) = db
          /\ db'[Len(db')].balance = 0
          /\ Len(db'[Len(db')].number) = 16
          /\ AllDigits(db'[Len(db')].number)
          /\ Len(db'[Len(db')].pin) = 4
          /\ AllDigits(db'[Len(db')].pin)
          /\ card = None
          /\ card' = None]_vars

C14_Witness ==
    /\ last.op = "create"
    /\ Len(db) = 2
    /\ db[1].balance # 0
    /\ db[2].balance = 0
    /\ card = None

\* C15: a transfer never raises a stored balance of the source and never
\* lowers a stored balance of the destination
C15_TransferOnlyForward ==
    [][last'.op = "transfer" =>
          /\ Len(db') = Len(db)
          /\ \A i \in 1..Len(db) :
                /\ db[i].number = card.number =>
                      db'[i].balance <= db[i].balance
                /\ db[i].number = last'.number =>
                      db'[i].balance >= db[i].balance]_vars

\* C16: adding income changes the stored balance of one row, a row of the
\* logged-in card, by the amount entered, and no other row
C16_IncomeChangesOneRow ==
    [][(last'.op = "income" /\ exc' = "none") =>
          LET income == IntOfInput(last'.money)
          IN  /\ Len(db') = Len(db)
              /\ \E i \in 1..Len(db) :
                    /\ db[i].number = card.number
                    /\ db'[i] = [db[i] EXCEPT !.balance = @ + income]
                    /\ \A j \in 1..Len(db) : j # i => db'[j] = db[j]]_vars

\* C17: after a transfer that made both updates no stored balance of the
\* source is negative
C17_SourceNotOverdrawn ==
    [][TransferDone(last', exc') =>
          \A i \in 1..Len(db') :
              db'[i].number = card.number => db'[i].balance >= 0]_vars

\* the commands of the two menus of start
UserCommands == {"balance", "income", "transfer", "close", "logout"}
AnonymousCommands == {"create", "login"}

\* C18: the commands of the user menu run only with a card logged in, the
\* commands of the start menu only with none; a failed login, a logout
\* and a close leave no card logged in; the number of a logged-in card is
\* in the table
C18_TwoStateSession ==
    [][/\ last'.op \in UserCommands => card # None
       /\ last'.op \in AnonymousCommands => card = None
       /\ (last'.op = "login" /\ card' # None) =>
             \E i \in 1..Len(db) :
                 db[i].number = last'.number /\ card'.number = last'.number
       /\ (last'.op = "login" /\ check_card(db, last'.number, last'.code) = None)
             => card' = None
       /\ last'.op \in {"logout", "close"} => card' = None
       /\ card' # None => ~Absent(db', card'.number)]_vars

C18_Witness ==
    /\ last.op = "login"
    /\ last.msg = "Wrong card number or PIN!"
    /\ card = None
    /\ ~Absent(db, last.number)

====
